---- MODULE Spec2Model ----
(***************************************************************************)
(* Chinese dictation practice: the character-selection policy, the session *)
(* history and the status of a practised item.                             *)
(*                                                                         *)
(* Two selection functions are modelled: select_character of               *)
(* app_dictation_chinese.py (uniform draw over the whole list) and         *)
(* next_character of select_characters.py (prefers characters that are not *)
(* in st.session_state.characters_done, signals with balloons / snow).     *)
(* Both are memoized with st.cache_data and are driven by the page script  *)
(* of app_dictation_chinese.py; one step of the model is one run of that   *)
(* script (Streamlit reruns it from top to bottom on every interaction).   *)
(*                                                                         *)
(* The splitter of the character list (split_characters, list_characters)  *)
(* and the temporary file of generate_mp3 (temporary_filename) are         *)
(* modelled on their own, in SpecSplit and SpecTemp.                       *)
(*                                                                         *)
(* Strings are ASCII stand-ins: "hao", "xue", "mo" for the characters, and *)
(* "(?)", "(_)", "(x)", "(v)" for the four emoji labels of Status.         *)
(***************************************************************************)
EXTENDS Naturals, Sequences, FiniteSets

VARIABLES
    selector,         \* which selection function the page calls
    char_list,        \* list_characters: the set of characters to practise
    cache,            \* st.cache_data entry of the selection function: <<>> or <<item>>
    characters_done,  \* st.session_state.characters_done
    check,            \* widget state of the radios check_0.. of the Review tab
    word,             \* the item the page presents at the end of the run: <<>> or <<item>>
    current,          \* what the first, memoized call of the run returned: <<>> or <<item>>
    pressed,          \* what triggered the last run of the script
    error,            \* the exception that halted the last run, or "none"
    drawlog,          \* one entry per execution of the selection function's body
    fresh,            \* the session began with an empty history and was never cleared
    recorded,         \* the texts handed to record_characters (SpecRecord)
    label,            \* the last value handed to Status.from_string (SpecParse)
    parsed,           \* what Status.from_string made of it (SpecParse)
    text,             \* the text handed to the splitter last (SpecSplit)
    splitter,         \* which splitter it was handed to (SpecSplit)
    tokens,           \* what split_characters returned for it (SpecSplit)
    listed,           \* the set of characters made of it (SpecSplit)
    fs,               \* the temporary files that exist (SpecTemp)
    tmp_pc,           \* per with-block: "idle", or "body" while inside it (SpecTemp)
    tmp,              \* per with-block: the local `tmp` of temporary_filename (SpecTemp)
    thrown,           \* per with-block: what its body raised last, or "none" (SpecTemp)
    raised            \* per with-block: what left the with statement last, or "none" (SpecTemp)

pageVars == <<selector, char_list, cache, characters_done, check, word, current,
              pressed, error, drawlog, fresh, recorded, label, parsed>>

splitVars == <<text, splitter, tokens, listed>>

tempVars == <<fs, tmp_pc, tmp, thrown, raised>>

vars == <<pageVars, splitVars, tempVars>>

-----------------------------------------------------------------------------
(* Bounds of the model *)

MaxDone == 3
MaxDraws == 3
MaxRecorded == 4
MaxText == 5
MaxScopes == 2
MaxFiles == 3

Chars == {"hao", "xue", "mo"}

\* the with-blocks that can be open at once: one per session thread
Scopes == 1..MaxScopes

\* the names NamedTemporaryFile can give a file
Names == 1..MaxFiles

-----------------------------------------------------------------------------
(* Status *)

L_UNKNOWN == "(?)"
L_UNANSWERED == "(_)"
L_INCORRECT == "(x)"
L_CORRECT == "(v)"

\* Status.list_values(): the options of the radio, in enumeration order
list_values == <<L_UNKNOWN, L_UNANSWERED, L_INCORRECT, L_CORRECT>>

\* Python's None, as a value a label can take
NoneValue == "None"

\* as app_from_string, but testing `not value` where the code tests `is None`
app_from_string_falsy(value) ==
    IF value = L_UNKNOWN \/ value = NoneValue \/ value = "" THEN "UNKNOWN"
    ELSE IF value = L_UNANSWERED THEN "UNANSWERED"
    ELSE IF value = L_INCORRECT THEN "INCORRECT"
    ELSE IF value = L_CORRECT THEN "CORRECT"
    ELSE "ValueError"

\* Status.from_string of app_dictation_chinese.py: a chain of comparisons
app_from_string(value) ==
    IF value = L_UNKNOWN \/ value = NoneValue THEN "UNKNOWN"
    ELSE IF value = L_UNANSWERED THEN "UNANSWERED"
    ELSE IF value = L_INCORRECT THEN "INCORRECT"
    ELSE IF value = L_CORRECT THEN "CORRECT"
    ELSE "ValueError"

\* the enumeration of select_characters.py, as <<name, value>> pairs in order
StatusEnum == << <<"UNKNOWN", L_UNKNOWN>>, <<"MISSING", L_UNANSWERED>>,
                 <<"INCORRECT", L_INCORRECT>>, <<"CORRECT", L_CORRECT>> >>

\* Status.from_string of select_characters.py: None, then the first member
\* whose value equals the argument
lib_from_string(value) ==
    IF value = NoneValue THEN "UNKNOWN"
    ELSE LET hits == {i \in DOMAIN StatusEnum : StatusEnum[i][2] = value}
         IN  IF hits = {} THEN "ValueError"
             ELSE StatusEnum[CHOOSE i \in hits : \A j \in hits : i <= j][1]

from_string(sel, value) ==
    IF sel = "select_character" THEN app_from_string(value)
    ELSE lib_from_string(value)

-----------------------------------------------------------------------------
(* Items *)

\* Word(characters): status defaults to None
Word(t) == [chars |-> t, status |-> "None"]

\* Character(chars): _status defaults to Status.UNKNOWN
Character(t) == [chars |-> t, status |-> "UNKNOWN"]

\* Character.__eq__: the texts are compared
character_eq(a, b) == a.chars = b.chars

\* Word has no __eq__ of its own: the dataclass compares every field
word_eq(a, b) == a.chars = b.chars /\ a.status = b.status

item_eq(sel, a, b) == IF sel = "select_character" THEN word_eq(a, b) ELSE character_eq(a, b)

NewItem(sel, t) == IF sel = "select_character" THEN Word(t) ELSE Character(t)

-----------------------------------------------------------------------------
(* Selection *)

\* {c.chars for c in st.session_state.characters_done}
seen(done) == {done[i].chars : i \in DOMAIN done}

\* as undone_chars, excluding only the character presented last
undone_chars_last(pool, done) ==
    pool \ {done[i].chars : i \in DOMAIN done \cap {Len(done)}}

undone_chars(pool, done) == pool \ seen(done)

\* as next_character_signals, with `<= 1` and a second `if` for the `elif`
next_character_signals_both(pool, done) ==
    (IF Cardinality(pool \ {done[i].chars : i \in DOMAIN done}) <= 1
     THEN <<"balloons">> ELSE <<>>)
    \o (IF Cardinality(pool \ {done[i].chars : i \in DOMAIN done}) = 0
        THEN <<"snow">> ELSE <<>>)

\* as next_character_signals, with the two calls exchanged
next_character_signals_swapped(pool, done) ==
    IF Cardinality(pool \ {done[i].chars : i \in DOMAIN done}) = 1 THEN <<"snow">>
    ELSE IF Cardinality(pool \ {done[i].chars : i \in DOMAIN done}) = 0
         THEN <<"balloons">>
    ELSE <<>>

\* as next_character_signals, silent on an empty list
next_character_signals_guarded(pool, done) ==
    IF pool = {} THEN <<>>
    ELSE IF Cardinality(pool \ {done[i].chars : i \in DOMAIN done}) = 1
         THEN <<"balloons">>
    ELSE IF Cardinality(pool \ {done[i].chars : i \in DOMAIN done}) = 0
         THEN <<"snow">>
    ELSE <<>>

\* the st.balloons() / st.snow() calls of next_character, in order
next_character_signals(pool, done) ==
    IF Cardinality(undone_chars(pool, done)) = 1 THEN <<"balloons">>
    ELSE IF Cardinality(undone_chars(pool, done)) = 0 THEN <<"snow">>
    ELSE <<>>

\* as next_character_candidates, falling back to the characters done
\* instead of char_list
next_character_candidates_from_done(pool, done) ==
    IF Cardinality(pool \ {done[i].chars : i \in DOMAIN done}) = 0
    THEN {done[i].chars : i \in DOMAIN done}
    ELSE pool \ {done[i].chars : i \in DOMAIN done}

\* as next_character_candidates, drawing from char_list whatever was done
next_character_candidates_whole_list(pool, done) == pool

\* the set handed to choice() by next_character
next_character_candidates(pool, done) ==
    IF Cardinality(undone_chars(pool, done)) = 1 THEN undone_chars(pool, done)
    ELSE IF Cardinality(undone_chars(pool, done)) = 0 THEN pool
    ELSE undone_chars(pool, done)

\* the set handed to choice() by select_character
select_character_candidates(pool) == pool

Candidates(sel, pool, done) ==
    IF sel = "select_character" THEN select_character_candidates(pool)
    ELSE next_character_candidates(pool, done)

Signals(sel, pool, done) ==
    IF sel = "select_character" THEN <<>>
    ELSE next_character_signals(pool, done)

\* as Draw, with a default item where choice() raises
Draw_default(sel, pool, done) ==
    IF Candidates(sel, pool, done) = {}
    THEN {[error |-> "none", chars |-> "", undone |-> undone_chars(pool, done),
           signals |-> Signals(sel, pool, done)]}
    ELSE {[error |-> "none", chars |-> t, undone |-> undone_chars(pool, done),
           signals |-> Signals(sel, pool, done)] : t \in Candidates(sel, pool, done)}

\* One execution of the body: random.choice raises IndexError on an empty
\* sequence, and returns any member otherwise.
Draw(sel, pool, done) ==
    IF Candidates(sel, pool, done) = {}
    THEN {[error |-> "IndexError", chars |-> "", undone |-> undone_chars(pool, done),
           signals |-> Signals(sel, pool, done)]}
    ELSE {[error |-> "none", chars |-> t, undone |-> undone_chars(pool, done),
           signals |-> Signals(sel, pool, done)] : t \in Candidates(sel, pool, done)}

-----------------------------------------------------------------------------
(* Session history *)

\* as record_characters, skipping a text found anywhere in the history
record_characters_unique(done, w) ==
    IF done = <<>> THEN <<w>>
    ELSE IF w.chars \notin {done[i].chars : i \in DOMAIN done} THEN Append(done, w)
    ELSE done

\* record_characters
record_characters(done, w) ==
    IF done = <<>> THEN <<w>>
    ELSE IF w.chars # done[Len(done)].chars THEN Append(done, w)
    ELSE done

-----------------------------------------------------------------------------
(* The Review tab *)

\* the value of each radio check_i: its widget state, or the first option
\* for a radio that is rendered for the first time
radio_values(list, chk) ==
    [i \in 1..Len(list) |-> IF i <= Len(chk) THEN chk[i] ELSE list_values[1]]

\* as grade_all, grading only an item that was not graded yet
grade_all_once(sel, list, vals) ==
    [i \in 1..Len(list) |->
        IF list[i].status \in {"None", "UNKNOWN"}
        THEN [list[i] EXCEPT !.status = from_string(sel, vals[i])]
        ELSE list[i]]

\* word.status = Status.from_string(status), for every item listed
grade_all(sel, list, vals) ==
    [i \in 1..Len(list) |-> [list[i] EXCEPT !.status = from_string(sel, vals[i])]]

\* characters_done.clear() acts on the list bound at the top of the script.
\* record_characters rebinds st.session_state.characters_done to a new list
\* when the history is empty, so the two are the same list only when the
\* history was not empty at the start of the run.
clear_alias(alias_same, done) == IF alias_same THEN <<>> ELSE done

\* the list the Review tab enumerates: the same alias
review_list(alias_same, done) == IF alias_same THEN done ELSE <<>>

-----------------------------------------------------------------------------
(* One run of the page script *)

\* as cached_call, a hit returning the object itself (st.cache_resource):
\* the one the history holds and the Review tab grades
cached_call_shared(sel, pool, done, entry) ==
    IF entry # <<>>
    THEN {[error |-> "none",
           item |-> IF done # <<>> /\ done[Len(done)].chars = entry[1].chars
                    THEN <<done[Len(done)]>> ELSE entry,
           log |-> <<>>]}
    ELSE {[error |-> d.error,
           item |-> IF d.error = "none" THEN <<NewItem(sel, d.chars)>> ELSE <<>>,
           log |-> <<d>>] : d \in Draw(sel, pool, done)}

\* word = select_character(list_characters): a hit returns a copy of the
\* value pickled when it was computed, a miss executes the body
cached_call(sel, pool, done, entry) ==
    IF entry # <<>>
    THEN {[error |-> "none", item |-> entry, log |-> <<>>]}
    ELSE {[error |-> d.error,
           item |-> IF d.error = "none" THEN <<NewItem(sel, d.chars)>> ELSE <<>>,
           log |-> <<d>>] : d \in Draw(sel, pool, done)}

\* as cache_clear, leaving the entry in place
cache_keep(entry) == entry

\* st.cache_data.clear()
cache_clear(entry) == <<>>

\* an uncaught exception stops the script: nothing below the failing line runs
Halt(trigger, err, log, entry, done, cur) ==
    /\ Len(drawlog) + Len(log) <= MaxDraws
    /\ error' = err
    /\ pressed' = trigger
    /\ drawlog' = drawlog \o log
    /\ cache' = entry
    /\ characters_done' = done
    /\ current' = cur
    /\ word' = <<>>
    /\ UNCHANGED <<selector, char_list, check, fresh, recorded, label, parsed,
                   splitVars, tempVars>>

\* the history the Clear button and the grading loop of the Review tab leave:
\* `start` is the session history at line 125, `done` the one after the
\* record calls
review_history(sel, trigger, chk, start, done) ==
    LET alias_same == start # <<>>
        done3 == IF trigger = "clear" THEN clear_alias(alias_same, done) ELSE done
        shown == review_list(alias_same, done3)
    IN  IF shown # <<>> THEN grade_all(sel, shown, radio_values(shown, chk))
        ELSE done3

\* the radios the Review tab renders, with their values
review_radios(trigger, chk, start, done) ==
    LET alias_same == start # <<>>
        done3 == IF trigger = "clear" THEN clear_alias(alias_same, done) ELSE done
    IN  radio_values(review_list(alias_same, done3), chk)

\* the rest of the script once the audio is played: the Clear button and the
\* grading loop of the Review tab
Finish(trigger, chk, log, entry, done, cur, w) ==
    /\ Len(done) <= MaxDone
    /\ Len(drawlog) + Len(log) <= MaxDraws
    /\ characters_done' = review_history(selector, trigger, chk, characters_done, done)
    /\ check' = review_radios(trigger, chk, characters_done, done)
    /\ cache' = entry
    /\ word' = w
    /\ current' = cur
    /\ error' = "none"
    /\ pressed' = trigger
    /\ drawlog' = drawlog \o log
    /\ fresh' = (fresh /\ trigger # "clear")
    /\ UNCHANGED <<selector, char_list, recorded, label, parsed, splitVars, tempVars>>

\* mp3 = word.generate_mp3(rate): the call is memoized, so the synthesis is
\* executed, and can fail, in a run that moved the slider or loaded the page
\* ("rerun") and in a run that cleared the caches ("next"); a run triggered
\* by Clear or by a radio finds the entry its predecessor stored
generate_mp3_outcomes(trigger) ==
    IF trigger \in {"rerun", "next"} THEN {"none", "SynthesisError"} ELSE {"none"}

\* the synthesis raised at line 153: the records are done, the Review tab is
\* never reached and its widgets keep the state they had
HaltSynth(trigger, err, log, entry, done, cur, w) ==
    /\ Len(done) <= MaxDone
    /\ Len(drawlog) + Len(log) <= MaxDraws
    /\ error' = err
    /\ pressed' = trigger
    /\ drawlog' = drawlog \o log
    /\ cache' = entry
    /\ characters_done' = done
    /\ current' = cur
    /\ word' = w
    /\ UNCHANGED <<selector, char_list, check, fresh, recorded, label, parsed,
                   splitVars, tempVars>>

\* lines 153-154, then the Review tab
Present(trigger, chk, log, entry, done, cur, w) ==
    \E out \in generate_mp3_outcomes(trigger) :
        IF out # "none"
        THEN HaltSynth(trigger, out, log, entry, done, cur, w)
        ELSE Finish(trigger, chk, log, entry, done, cur, w)

\* lines 143-144, then the Next button (148-151), then the audio and the
\* Review tab
Script(trigger, chk) ==
    \E c1 \in cached_call(selector, char_list, characters_done, cache) :
        IF c1.error # "none"
        THEN Halt(trigger, c1.error, c1.log, cache, characters_done, <<>>)
        ELSE LET done1 == record_characters(characters_done, c1.item[1])
             IN  IF trigger # "next"
                 THEN Present(trigger, chk, c1.log, c1.item, done1, c1.item, c1.item)
                 ELSE \E c2 \in cached_call(selector, char_list, done1,
                                            cache_clear(c1.item)) :
                        IF c2.error # "none"
                        THEN Halt(trigger, c2.error, c1.log \o c2.log, <<>>,
                                  done1, c1.item)
                        ELSE Present(trigger, chk, c1.log \o c2.log, c2.item,
                                     record_characters(done1, c2.item[1]),
                                     c1.item, c2.item)

\* the first load, or a rerun that presses nothing (the speed slider)
Rerun == Script("rerun", check)

\* the buttons and radios exist once a run has rendered them
Rendered == pressed # "none" /\ error = "none"

\* the Next button is rendered above the audio: a run halted by the synthesis
\* has rendered it too
NextRendered == pressed # "none" /\ error \in {"none", "SynthesisError"}

PressNext == NextRendered /\ Script("next", check)

PressClear == Rendered /\ Script("clear", check)

Grade ==
    /\ Rendered
    /\ \E i \in DOMAIN check : \E l \in {list_values[k] : k \in DOMAIN list_values} :
         /\ l # check[i]
         /\ Script("grade", [check EXCEPT ![i] = l])

-----------------------------------------------------------------------------
(* Splitting a text into characters *)

\* A text is a sequence of symbols: "x" and "y" stand for characters, " "
\* and "nl" for a space and a newline, "," for the ASCII comma and "fw" for
\* the full-width comma; None is the text NoneText.
Symbols == {"x", "y", " ", "nl", ",", "fw"}

NoneText == <<NoneValue>>

\* \s of the pattern, and the characters str.strip() removes
IsSpace(c) == c \in {" ", "nl"}

\* as IsComma, for a class that holds the ASCII comma only
IsComma_ascii(c) == c = ","

\* the class [,<full-width comma>] of the pattern
IsComma(c) == c \in {",", "fw"}

\* \s* from position p: the first position at or after p that holds no space
RECURSIVE SkipSpace(_, _)
SkipSpace(t, p) ==
    IF p <= Len(t) /\ IsSpace(t[p]) THEN SkipSpace(t, p + 1) ELSE p

\* patt_sep matched at position p: the position after the match, or 0 when
\* neither alternative matches there; \s*[,<fw>]\s* is tried before \s+
patt_sep_match(t, p) ==
    LET q == SkipSpace(t, p)
    IN  IF q <= Len(t) /\ IsComma(t[q]) THEN SkipSpace(t, q + 1)
        ELSE IF q > p THEN q
        ELSE 0

\* patt_sep.split(text) from position p on, `piece` being the text since the
\* last match
RECURSIVE patt_sep_split(_, _, _)
patt_sep_split(t, p, piece) ==
    IF p > Len(t) THEN <<piece>>
    ELSE IF patt_sep_match(t, p) = 0
         THEN patt_sep_split(t, p + 1, Append(piece, t[p]))
         ELSE <<piece>> \o patt_sep_split(t, patt_sep_match(t, p), <<>>)

\* str.strip()
RECURSIVE strip(_)
strip(c) ==
    IF c = <<>> THEN c
    ELSE IF IsSpace(c[1]) THEN strip(Tail(c))
    ELSE IF IsSpace(c[Len(c)]) THEN strip(SubSeq(c, 1, Len(c) - 1))
    ELSE c

\* [c.strip() for c in pieces if c.strip()]
stripped(pieces) ==
    SelectSeq([i \in DOMAIN pieces |-> strip(pieces[i])], LAMBDA c : c # <<>>)

\* split_characters(text): None and "" are falsy
split_characters(t) ==
    IF t = NoneText \/ t = <<>> THEN <<>>
    ELSE stripped(patt_sep_split(t, 1, <<>>))

\* list_characters of the page: the set comprehension over patt_sep.split
list_characters(t) ==
    {stripped(patt_sep_split(t, 1, <<>>))[i] :
        i \in DOMAIN stripped(patt_sep_split(t, 1, <<>>))}

\* the texts of at most n symbols
TextsUpTo(n) == UNION {[1..k -> Symbols] : k \in 0..n}

\* set(split_characters(list_characters)) at the end of select_characters():
\* the text comes from a file or a widget, or is None
Split ==
    /\ splitter = "none"
    /\ splitter' = "split_characters"
    /\ tokens' = split_characters(text)
    /\ listed' = {split_characters(text)[i] : i \in DOMAIN split_characters(text)}
    /\ UNCHANGED <<pageVars, text, tempVars>>

\* lines 120-121 of the page: the text is the string of a text widget
ListCharacters ==
    /\ splitter = "none"
    /\ text # NoneText
    /\ splitter' = "list_characters"
    /\ listed' = list_characters(text)
    /\ UNCHANGED <<pageVars, text, tokens, tempVars>>

-----------------------------------------------------------------------------
(* temporary_filename *)

\* tmp: Optional[Path] = None -- no name is a name of no file
NoPath == 0

\* what the body of the with-block of generate_mp3 can raise: the engine
\* fails, or the file cannot be read
BodyErrors == {"SynthesisError", "OSError"}

\* as unlink, removing the file only when the body returned
unlink_on_return(files, t, err) ==
    IF t = NoPath \/ err # "none" THEN files ELSE files \ {t}

\* finally: if tmp: tmp.unlink() -- the files left when the block is left
\* with err pending ("none" when the body returned)
unlink(files, t, err) ==
    IF t = NoPath THEN files ELSE files \ {t}

\* what leaves the finally block: Path.unlink raises FileNotFoundError for a
\* missing file, and a raise inside finally replaces the pending error
leaves(files, t, err) ==
    IF t # NoPath /\ t \notin files THEN "FileNotFoundError" ELSE err

\* with temporary_filename(...) as mp3_path: the block is entered with a new
\* file that has a name of its own
Enter(s) ==
    /\ tmp_pc[s] = "idle"
    /\ \E n \in Names \ fs :
         /\ fs' = fs \cup {n}
         /\ tmp' = [tmp EXCEPT ![s] = n]
    /\ tmp_pc' = [tmp_pc EXCEPT ![s] = "body"]
    /\ thrown' = [thrown EXCEPT ![s] = "none"]
    /\ raised' = [raised EXCEPT ![s] = "none"]
    /\ UNCHANGED <<pageVars, splitVars>>

\* NamedTemporaryFile raises: tmp is still None and the body never runs
EnterFails(s) ==
    /\ tmp_pc[s] = "idle"
    /\ tmp' = [tmp EXCEPT ![s] = NoPath]
    /\ fs' = unlink(fs, NoPath, "OSError")
    /\ thrown' = [thrown EXCEPT ![s] = "none"]
    /\ raised' = [raised EXCEPT ![s] = leaves(fs, NoPath, "OSError")]
    /\ UNCHANGED <<pageVars, splitVars, tmp_pc>>

\* the body returns (err = "none") or raises err: the generator is resumed
\* at its yield and runs its finally block
Exit(s, err) ==
    /\ tmp_pc[s] = "body"
    /\ tmp_pc' = [tmp_pc EXCEPT ![s] = "idle"]
    /\ thrown' = [thrown EXCEPT ![s] = err]
    /\ fs' = unlink(fs, tmp[s], err)
    /\ raised' = [raised EXCEPT ![s] = leaves(fs, tmp[s], err)]
    /\ UNCHANGED <<pageVars, splitVars, tmp>>

BodyReturns == \E s \in Scopes : Exit(s, "none")

BodyRaises == \E s \in Scopes : \E e \in BodyErrors : Exit(s, e)

-----------------------------------------------------------------------------
(* Specifications *)

Selectors == {"select_character", "next_character"}

\* the characters in the order they were practised before
PractiseOrder == <<"hao", "xue", "mo">>

\* histories left by earlier practice, one for every set of seen texts: each
\* text once, graded UNKNOWN by the run that listed it last
Histories(sel) ==
    {h \in {[i \in DOMAIN SelectSeq(PractiseOrder, LAMBDA c : c \in S) |->
               [(NewItem(sel, SelectSeq(PractiseOrder, LAMBDA c : c \in S)[i]))
                   EXCEPT !.status = "UNKNOWN"]] : S \in SUBSET Chars} :
        Len(h) <= MaxDone}

InitCommon ==
    /\ cache = <<>>
    /\ word = <<>>
    /\ current = <<>>
    /\ pressed = "none"
    /\ error = "none"
    /\ drawlog = <<>>
    /\ recorded = <<>>
    /\ label = NoneValue
    /\ parsed = "UNKNOWN"
    /\ splitter = "none"
    /\ tokens = <<>>
    /\ listed = {}
    /\ fs = {}
    /\ tmp_pc = [s \in Scopes |-> "idle"]
    /\ tmp = [s \in Scopes |-> NoPath]
    /\ thrown = [s \in Scopes |-> "none"]
    /\ raised = [s \in Scopes |-> "none"]

\* a new session: the history does not exist yet and is created empty
Init ==
    /\ selector \in Selectors
    /\ char_list \in SUBSET Chars
    /\ characters_done = <<>>
    /\ check = <<>>
    /\ fresh = TRUE
    /\ text = <<>>
    /\ InitCommon

Next == Rerun \/ PressNext \/ PressClear \/ Grade

Spec == Init /\ [][Next]_vars

\* a session whose list of characters was just edited: the history holds what
\* was practised before, and the new list has no cache entry yet
InitResumed ==
    /\ selector \in Selectors
    /\ char_list \in SUBSET Chars
    /\ characters_done \in Histories(selector)
    /\ check = [i \in 1..Len(characters_done) |-> L_UNKNOWN]
    /\ fresh = (characters_done = <<>>)
    /\ text = <<>>
    /\ InitCommon

\* the runs that select, record and clear; grading is left to Spec, since
\* no selection reads a status
NextResumed == Rerun \/ PressNext \/ PressClear

SpecResumed == InitResumed /\ [][NextResumed]_vars

-----------------------------------------------------------------------------
(* Status.from_string and record_characters on their own *)

\* values a caller can hand to Status.from_string: the four labels, None,
\* the empty string and a string that is no label
ParseInputs == {L_UNKNOWN, L_UNANSWERED, L_INCORRECT, L_CORRECT, NoneValue, "", "xyz"}

\* word.status = Status.from_string(value) on item i of the history; a
\* ValueError leaves the item as it was
SetStatus ==
    \E i \in DOMAIN characters_done : \E v \in ParseInputs :
        /\ label' = v
        /\ parsed' = from_string(selector, v)
        /\ characters_done' =
             IF from_string(selector, v) = "ValueError" THEN characters_done
             ELSE [characters_done EXCEPT ![i].status = from_string(selector, v)]
        /\ UNCHANGED <<selector, char_list, cache, check, word, current, pressed,
                       error, drawlog, fresh, recorded, splitVars, tempVars>>

InitParse ==
    /\ selector \in Selectors
    /\ char_list = Chars
    /\ characters_done \in Histories(selector)
    /\ check = [i \in 1..Len(characters_done) |-> L_UNKNOWN]
    /\ fresh = FALSE
    /\ text = <<>>
    /\ InitCommon

SpecParse == InitParse /\ [][SetStatus]_vars

\* record_characters(Word(t)) for any sequence of texts
Record ==
    \E t \in Chars :
        /\ Len(recorded) < MaxRecorded
        /\ recorded' = Append(recorded, t)
        /\ characters_done' = record_characters(characters_done, Word(t))
        /\ UNCHANGED <<selector, char_list, cache, check, word, current, pressed,
                       error, drawlog, fresh, label, parsed, splitVars, tempVars>>

InitRecord ==
    /\ selector = "select_character"
    /\ char_list = Chars
    /\ characters_done = <<>>
    /\ check = <<>>
    /\ fresh = TRUE
    /\ text = <<>>
    /\ InitCommon

SpecRecord == InitRecord /\ [][Record]_vars

\* the splitters on their own
NextSplit == Split \/ ListCharacters

\* the text of a file or of a widget, or None, before it is split
InitSplit ==
    /\ selector = "select_character"
    /\ char_list = Chars
    /\ characters_done = <<>>
    /\ check = <<>>
    /\ fresh = TRUE
    /\ text \in TextsUpTo(MaxText) \cup {NoneText}
    /\ InitCommon

SpecSplit == InitSplit /\ [][NextSplit]_vars

\* temporary_filename on its own, one with-block per session thread
NextTemp ==
    \/ \E s \in Scopes : Enter(s)
    \/ \E s \in Scopes : EnterFails(s)
    \/ BodyReturns
    \/ BodyRaises

SpecTemp == InitRecord /\ [][NextTemp]_vars

-----------------------------------------------------------------------------
(* Properties *)

Range(q) == {q[i] : i \in DOMAIN q}

Texts(done) == [i \in DOMAIN done |-> done[i].chars]

\* the executions of the body that returned an item
Returned == {i \in DOMAIN drawlog : drawlog[i].error = "none"}

\* C1: every item a selection returns, freshly drawn or served from the
\* cache, has a text that is a member of the list of characters, whatever
\* the history held when it was drawn.
C1_PoolMembership ==
    /\ \A i \in Returned : drawlog[i].chars \in char_list
    /\ \A i \in DOMAIN word : word[i].chars \in char_list
    /\ \A i \in DOMAIN current : current[i].chars \in char_list
    /\ \A i \in DOMAIN cache : cache[i].chars \in char_list

\* three draws were made over a history that also holds texts outside the list
C1_Witness ==
    /\ selector = "next_character"
    /\ Cardinality(Returned) = 3
    /\ drawlog[3].undone = {}
    /\ seen(characters_done) \ char_list # {}

\* C2: in a session that began with an empty history and was never cleared,
\* a fresh draw returns a text that an earlier draw returned only if no
\* member of the list was unseen at the time of the draw.
C2_RepeatOnlyAfterExhaustion ==
    fresh =>
        \A j \in Returned : \A i \in Returned :
            (i < j /\ drawlog[i].chars = drawlog[j].chars) => drawlog[j].undone = {}

\* the same statement for the sessions that select with next_character
C2_NextCharacterOnly ==
    selector = "next_character" => C2_RepeatOnlyAfterExhaustion

\* C3: an execution of next_character on a non-empty list emits at most one
\* signal: balloons exactly when one member is unseen, snow exactly when
\* none is, nothing when two or more are.
C3_OneSignal ==
    (selector = "next_character" /\ char_list # {}) =>
        \A i \in DOMAIN drawlog :
            LET n == Cardinality(drawlog[i].undone)
                s == drawlog[i].signals
            IN  /\ Len(s) <= 1
                /\ ("balloons" \in Range(s)) <=> (n = 1)
                /\ ("snow" \in Range(s)) <=> (n = 0)
                /\ (n >= 2) => (s = <<>>)

\* one session saw all three outcomes
C3_Witness ==
    /\ selector = "next_character"
    /\ Len(drawlog) = 3
    /\ drawlog[1].signals = <<>>
    /\ drawlog[2].signals = <<"balloons">>
    /\ drawlog[3].signals = <<"snow">>

\* the candidate set the property names: the unseen members, or the whole
\* list when none is unseen
EffectiveSet(undone) == IF undone # {} THEN undone ELSE char_list

\* C4: next_character returns a member of pool - seen when that is not
\* empty and a member of the pool otherwise, and each such member is a
\* possible result of the draw the Next button forces.
C4_CandidateSet ==
    (selector = "next_character" /\ char_list # {}) =>
        /\ \A i \in Returned : drawlog[i].chars \in EffectiveSet(drawlog[i].undone)
        /\ (Rendered /\ Len(drawlog) < MaxDraws
              /\ Len(record_characters(characters_done, cache[1])) < MaxDone) =>
             \A t \in Chars :
                (t \in EffectiveSet(char_list
                         \ seen(record_characters(characters_done, cache[1]))))
                <=> ENABLED (PressNext /\ word' = <<Character(t)>>)

\* a draw with one unseen member returned it, and a draw after exhaustion
\* returned a seen one
C4_Witness ==
    /\ selector = "next_character"
    /\ Len(drawlog) = 3
    /\ Cardinality(drawlog[2].undone) = 1
    /\ drawlog[2].chars \in drawlog[2].undone
    /\ drawlog[3].undone = {}
    /\ drawlog[3].chars = drawlog[1].chars

Count(sig) == Cardinality({i \in DOMAIN drawlog : sig \in Range(drawlog[i].signals)})

\* C5: three draws of next_character over a two-member list, from an empty
\* history that is never cleared: balloons at least once, snow at most
\* once, and no snow before the first balloons.
C5_ThreeDraws ==
    (selector = "next_character" /\ fresh /\ Cardinality(char_list) = 2
        /\ Len(drawlog) = 3) =>
        /\ Count("balloons") >= 1
        /\ Count("snow") <= 1
        /\ \A j \in DOMAIN drawlog :
             "snow" \in Range(drawlog[j].signals) =>
                \E i \in 1..(j - 1) : "balloons" \in Range(drawlog[i].signals)

C5_Witness ==
    /\ selector = "next_character" /\ fresh /\ Cardinality(char_list) = 2
    /\ Len(drawlog) = 3
    /\ pressed = "next"
    /\ Count("snow") = 1

\* C6: with an empty list every run of the script fails in the selection:
\* it raises, presents no item, caches none, and leaves the history as it was.
C6_EmptyPoolFails ==
    [][char_list = {} =>
         /\ error' = "IndexError"
         /\ word' = <<>> /\ current' = <<>> /\ cache' = <<>>
         /\ characters_done' = characters_done
         /\ Len(drawlog') = Len(drawlog) + 1
         /\ drawlog'[Len(drawlog')].error = "IndexError"]_vars

\* two runs failed over a history that was not empty
C6_Witness ==
    /\ char_list = {}
    /\ error = "IndexError"
    /\ characters_done # <<>>
    /\ Len(drawlog) = 2

\* C7: as long as Next is not pressed, the memoized call of every run
\* returns the item the run before got, text and status, whatever was
\* recorded, graded or cleared in between.
C7_CurrentIdempotent ==
    [][(pressed \notin {"none", "next"} /\ error # "IndexError") =>
           (error' # "IndexError" /\ current' = current)]_vars

\* the item was graded in the history and is still returned as it was drawn
C7_Witness ==
    /\ pressed = "grade"
    /\ current # <<>>
    /\ \E i \in DOMAIN characters_done :
         /\ characters_done[i].chars = current[1].chars
         /\ characters_done[i].status = "CORRECT"
    /\ current[1].status # "CORRECT"

\* C8: a run with Next pressed executes the body once more, presents and
\* caches the item that execution returned, and the memoized call of the
\* run after it returns that item.
C8_AdvanceRedraws ==
    [][/\ (pressed' = "next" /\ error' # "IndexError") =>
            /\ Len(drawlog') = Len(drawlog) + 1
            /\ word' = <<NewItem(selector, drawlog'[Len(drawlog')].chars)>>
            /\ cache' = word'
       /\ (pressed = "next" /\ error # "IndexError") =>
            (error' # "IndexError" /\ current' = word)]_vars

\* Next drew another text than the cached one, and the run after it got it
C8_Witness ==
    /\ pressed = "rerun"
    /\ Len(drawlog) = 2
    /\ current # <<>>
    /\ current = word
    /\ current[1].chars = drawlog[2].chars
    /\ drawlog[1].chars # drawlog[2].chars

\* the member of each enumeration whose value is the label
Matching(sel, value) ==
    IF value = L_UNKNOWN THEN "UNKNOWN"
    ELSE IF value = L_UNANSWERED
         THEN (IF sel = "select_character" THEN "UNANSWERED" ELSE "MISSING")
    ELSE IF value = L_INCORRECT THEN "INCORRECT"
    ELSE "CORRECT"

\* C9 as stated: the empty string and None both parse to UNKNOWN, a label
\* parses to its status, anything else raises.
C9_ParseAsStated ==
    /\ (label = "" \/ label = NoneValue) => parsed = "UNKNOWN"
    /\ label \in Range(list_values) => parsed = Matching(selector, label)
    /\ label \notin Range(list_values) \cup {"", NoneValue} => parsed = "ValueError"

\* C9: None parses to UNKNOWN, a label parses to its status, and anything
\* else, the empty string included, raises ValueError.
C9_ParseAmended ==
    /\ label = NoneValue => parsed = "UNKNOWN"
    /\ label \in Range(list_values) => parsed = Matching(selector, label)
    /\ label \notin Range(list_values) \cup {NoneValue} => parsed = "ValueError"

\* the empty string was parsed, and the item it was meant for kept its status
C9_Witness ==
    /\ label = ""
    /\ parsed = "ValueError"
    /\ \E i \in DOMAIN characters_done : characters_done[i].status = "CORRECT"

RECURSIVE Collapse(_)
\* a sequence with every run of equal consecutive elements cut to one
Collapse(q) ==
    IF Len(q) <= 1 THEN q
    ELSE LET rest == Collapse(SubSeq(q, 1, Len(q) - 1))
         IN  IF q[Len(q)] = q[Len(q) - 1] THEN rest ELSE Append(rest, q[Len(q)])

\* C10: after any sequence of record_characters calls the history is the
\* sequence of recorded texts with its runs collapsed: no two neighbours
\* are equal, and a text that comes back later is kept.
C10_RecordCollapses ==
    /\ Texts(characters_done) = Collapse(recorded)
    /\ \A i \in 1..(Len(characters_done) - 1) :
         characters_done[i].chars # characters_done[i + 1].chars

\* hao, hao, xue, hao was recorded as hao, xue, hao
C10_Witness ==
    /\ recorded = <<"hao", "hao", "xue", "hao">>
    /\ Texts(characters_done) = <<"hao", "xue", "hao">>

\* the positions that hold the same item before and after a step: the
\* history only grows at its end or is emptied
Kept == DOMAIN characters_done \cap DOMAIN characters_done'

\* a status that was never graded: None or UNKNOWN
Ungraded(st) == st \in {"None", "UNKNOWN"}

\* C11 as stated: a status only ever changes from ungraded (None counted
\* as UNKNOWN) to UNANSWERED, INCORRECT or CORRECT.
C11_OnlyFromUnknown ==
    [][\A i \in Kept :
         characters_done'[i].status # characters_done[i].status =>
            \/ Ungraded(characters_done[i].status) /\ ~Ungraded(characters_done'[i].status)
            \/ characters_done[i].status = "None" /\ characters_done'[i].status = "UNKNOWN"
      ]_vars

\* C11: every status change sets the item to the status of the label now
\* selected on its radio, and has one of two causes: the user changed that
\* radio (from any status to any other), or a Word created with None is
\* listed for the first time; every listed item carries its radio's status.
C11_StatusFollowsRadio ==
    [][/\ \A i \in Kept :
            characters_done'[i].status # characters_done[i].status =>
               /\ i \in DOMAIN check'
               /\ characters_done'[i].status = Matching(selector, check'[i])
               /\ \/ pressed' = "grade" /\ i \in DOMAIN check /\ check'[i] # check[i]
                  \/ characters_done[i].status = "None"
       /\ (error' = "none" /\ check' # <<>>) =>
            \A i \in DOMAIN check' :
               characters_done'[i].status = Matching(selector, check'[i])
      ]_vars

\* an item was graded, and one was set back to UNKNOWN by its radio
C11_Witness ==
    /\ pressed = "grade"
    /\ Len(check) >= 2
    /\ check[1] = L_UNKNOWN /\ characters_done[1].status = "UNKNOWN"
    /\ check[2] = L_INCORRECT /\ characters_done[2].status = "INCORRECT"

\* C12: a run with Clear pressed ends with an empty history.
C12_ClearEmpties ==
    (pressed = "clear" /\ error = "none") => characters_done = <<>>

\* C14: an item a selection returns has status UNKNOWN.
C14_CreatedUnknown ==
    \A it \in Range(word) \cup Range(current) \cup Range(cache) : it.status = "UNKNOWN"

\* the items the session holds: the history, the presented one, the cached one
Items == Range(characters_done) \cup Range(word) \cup Range(cache)

\* C15: two items are equal exactly when their texts are.
C15_EqualIffSameText ==
    \A a \in Items : \A b \in Items :
        item_eq(selector, a, b) <=> (a.chars = b.chars)

\* the same statement for the items of select_characters.py
C15_CharacterOnly ==
    selector = "next_character" => C15_EqualIffSameText

\* C18: once next_character finds every member of a non-empty list in the
\* history, every run that does not clear keeps it so, and every draw
\* such a run makes finds nothing unseen, calls snow and not balloons, and
\* returns a member of the list.
C18_StaysExhausted ==
    [][(selector = "next_character" /\ char_list # {}
          /\ char_list \subseteq seen(characters_done) /\ pressed' # "clear") =>
          /\ char_list \subseteq seen(characters_done')
          /\ \A i \in (Len(drawlog) + 1)..Len(drawlog') :
               /\ drawlog'[i].undone = {}
               /\ drawlog'[i].signals = <<"snow">>
               /\ drawlog'[i].error = "none"
               /\ drawlog'[i].chars \in char_list
      ]_vars

\* two draws in a row found the list exhausted
C18_Witness ==
    /\ selector = "next_character"
    /\ Cardinality(char_list) = 2
    /\ Len(drawlog) = 3
    /\ drawlog[2].signals = <<"snow">>
    /\ drawlog[3].signals = <<"snow">>
    /\ drawlog[3].chars \in char_list

\* C19: every run that completes lists and grades, in its Review tab, all
\* the items the history holds after the run's record calls.
C19_ReviewListsHistory ==
    (pressed # "none" /\ error = "none") =>
        /\ Len(check) = Len(characters_done)
        /\ \A i \in DOMAIN characters_done :
             characters_done[i].status = Matching(selector, check[i])

\* C20: an execution of next_character that fails on an empty list has
\* called snow before failing.
C20_FailingCallSnows ==
    selector = "next_character" =>
        \A i \in DOMAIN drawlog :
            drawlog[i].error = "IndexError" =>
                (char_list = {} /\ drawlog[i].signals = <<"snow">>)

\* next_character failed on an empty list, over a history of two items
C20_Witness ==
    /\ selector = "next_character"
    /\ char_list = {}
    /\ Len(characters_done) = 2
    /\ Len(drawlog) = 1
    /\ drawlog[1].error = "IndexError"
    /\ drawlog[1].signals = <<"snow">>

\* C17 as stated: a run halted by the synthesis leaves the history a
\* successful run would have left, and the run after it, without Next,
\* presents the same item.
C17_HistoryAsIfSucceeded ==
    [][/\ error' = "SynthesisError" =>
            characters_done' =
               review_history(selector, pressed', check, characters_done, characters_done')
       /\ (error = "SynthesisError" /\ pressed' # "next") =>
            (error' # "IndexError" /\ current' = word /\ word' = word)
      ]_vars

\* what holds of it: the texts of the history are those a successful run
\* would have left, and the item is presented again
C17_SameTexts ==
    [][/\ error' = "SynthesisError" =>
            Texts(characters_done') =
               Texts(review_history(selector, pressed', check, characters_done,
                                    characters_done'))
       /\ (error = "SynthesisError" /\ pressed' # "next") =>
            (error' # "IndexError" /\ current' = word /\ word' = word)
      ]_vars

\* the statement as it is, for the items of select_characters.py
C17_CharacterOnly ==
    [][selector = "next_character" =>
         /\ error' = "SynthesisError" =>
              characters_done' =
                 review_history(selector, pressed', check, characters_done, characters_done')
         /\ (error = "SynthesisError" /\ pressed' # "next") =>
              (error' # "IndexError" /\ current' = word /\ word' = word)
      ]_vars

\* a comma or a space
IsSeparator(c) == c \in {" ", "nl", ",", "fw"}

\* the positions of t where a maximal run of non-separators starts
RunStarts(t) ==
    {i \in DOMAIN t : ~IsSeparator(t[i]) /\ (i = 1 \/ IsSeparator(t[i - 1]))}

\* the last position of the run that starts at i
RunEnd(t, i) ==
    CHOOSE j \in i..Len(t) :
        /\ \A k \in i..j : ~IsSeparator(t[k])
        /\ j = Len(t) \/ IsSeparator(t[j + 1])

\* the n-th run of t, in the order of the text
Run(t, n) ==
    LET i == CHOOSE s \in RunStarts(t) :
                 Cardinality({r \in RunStarts(t) : r < s}) = n - 1
    IN  SubSeq(t, i, RunEnd(t, i))

\* the maximal runs of non-separators of t, in the order of the text
Runs(t) ==
    IF t = NoneText THEN <<>>
    ELSE [n \in 1..Cardinality(RunStarts(t)) |-> Run(t, n)]

\* C13: the split of a text is its maximal runs of characters between
\* whitespace and commas (ASCII or full-width), in order as a list and
\* as a set for the page; no token is empty or holds a space or a comma; an
\* empty or absent text gives the empty collection.
C13_SplitTokens ==
    splitter # "none" =>
    /\ splitter = "split_characters" => tokens = Runs(text)
    /\ listed = {Runs(text)[n] : n \in DOMAIN Runs(text)}
    /\ \A c \in listed \cup Range(tokens) :
         c # <<>> /\ \A k \in DOMAIN c : ~IsSeparator(c[k])
    /\ text \in {<<>>, NoneText} => (tokens = <<>> /\ listed = {})

\* a text cut at a full-width comma with spaces around it
C13_Witness ==
    /\ text = <<"x", " ", "fw", "nl", "y">>
    /\ splitter = "split_characters"
    /\ tokens = << <<"x">>, <<"y">> >>

\* C16: when a with-block ends, by a return or by an error of its body,
\* its file exists no more and the error of the body, if any, is what the
\* caller sees; a file that exists belongs to a block that is still open.
C16_DeletedOnEveryExit ==
    [][/\ \A s \in Scopes :
            (tmp_pc[s] = "body" /\ tmp_pc'[s] = "idle") =>
               /\ tmp[s] \in fs
               /\ tmp[s] \notin fs'
               /\ raised'[s] = thrown'[s]
       /\ fs' = {tmp'[s] : s \in {r \in Scopes : tmp_pc'[r] = "body"}}
      ]_vars

\* a block was left by a synthesis error while another one is open: the
\* file of the first is gone, the file of the second exists
C16_Witness ==
    /\ tmp_pc[1] = "idle" /\ tmp[1] # NoPath
    /\ thrown[1] = "SynthesisError" /\ raised[1] = "SynthesisError"
    /\ tmp[1] \notin fs
    /\ tmp_pc[2] = "body" /\ tmp[2] \in fs

====
